---------------------------- MODULE Spec2Model ----------------------------
(***************************************************************************)
(* Newton's Third Law demonstrations: the hammer-and-nail scenario         *)
(* (NewtonsThirdLawSimulation.tsx) and the Earth-Moon scenario             *)
(* (GravitySimulation.tsx), with the formulas of physics-simulations.ts.   *)
(*                                                                         *)
(* Numbers are fixed point: one Unit is 1e-4 (of a radian, of a pixel, of  *)
(* an impulse unit).  Every constant of the hammer scenario is a multiple  *)
(* of 1e-4 except the two angles pi/5 and pi/20, which are rounded to the  *)
(* nearest Unit; no comparison of the code is within one Unit of a tie.    *)
(***************************************************************************)
EXTENDS Integers, Sequences, FiniteSets, TLC

Unit == 100 * 100

\* ------------------------------------------------------------- bounds

\* Impacts allowed between two full resets (maxDepth and the swing angle
\* are unbounded in the code; the Hit guard caps them here).
MaxImpacts == 2

\* Running frames of the gravity scenario allowed between two Resets
\* (moonAngle and the trail grow with every Running frame).
MaxRunFrames == 2

\* Running frames already taken when a behaviour of TrailSpec starts.
PriorFrames == 499

\* User inputs (buttons, sliders, checkboxes, pointer events) to the gravity
\* scenario allowed after it is mounted.
MaxCommands == 6

\* Frames counted while the hammer rests in Pause (the count stops there).
MaxPauseFrames == 2

\* Pointer presses: horizontal offsets from the moon's centre, in pixels.
PressOffsets == {0, 24, 26, 30}

\* Pointer positions of a move, in canvas pixels: the Earth's centre, a
\* point 300 px to its right, and the top-left corner (500 px away).
PointerMoves == { <<400, 300>>, <<700, 300>>, <<0, 0>> }

\* ---------------------------------------------------------- arithmetic

Abs(x) == IF x < 0 THEN -x ELSE x

Min(a, b) == IF a <= b THEN a ELSE b

Max(a, b) == IF a >= b THEN a ELSE b

\* ------------------------------------------- physics-simulations.ts

\* Math.abs(mass * velocity); velocity in Units, result in Units.
\* The product with its sign kept.
calculateImpulseSigned(mass, velocity) == mass * velocity

calculateImpulse(mass, velocity) == Abs(mass * velocity)

\* A depth that shrinks as the impulse grows (not the code's formula).
calculatePenetrationDepthInverse(impulse) ==
    Max(60 * Unit - (impulse * 8) \div 10, 0)

\* Math.min(impulse * 0.8, 60)
calculatePenetrationDepth(impulse) == Min((impulse * 8) \div 10, 60 * Unit)

\* The arrow length without the upper limit of 150.
calculateForceMagnitudeNoCap(impulse) == Max((impulse * 15) \div 10, 50 * Unit)

\* Math.max(Math.min(impulse * 1.5, 150), 50)
calculateForceMagnitude(impulse) ==
    Max(Min((impulse * 15) \div 10, 150 * Unit), 50 * Unit)

\* ------------------------------------ NewtonsThirdLawSimulation.tsx

SimulationState == {"idle", "swinging", "contact", "pause", "resetting"}

MassOptions == {"light", "medium", "heavy"}

SpeedOptions == {"slow", "medium", "fast"}

GROUND_Y == 450

NAIL_X == 400

MASS_MAP == [light |-> 1, medium |-> 5, heavy |-> 10]

SPEED_MAP == [slow |-> 1, medium |-> 5, fast |-> 10]

\* 0.05, 0.1, 0.15 rad per frame
SWING_SPEED_RADS == [slow |-> 500, medium |-> 1000, fast |-> 1500]

\* Math.PI / 20 = 0.15707963...
HAMMER_IMPACT_ANGLE == 1571

\* Math.PI / 5 = 0.62831853...
INITIAL_HAMMER_ANGLE == 6283

\* The record physicsRef is constructed with.
InitialAnimationState ==
    [state |-> "idle", hammerAngle |-> INITIAL_HAMMER_ANGLE, nailDepth |-> 0,
     maxDepth |-> 0, forceMagnitude |-> 0]

VARIABLES
    tabValue,      \* the selected tab: 0 mounts the hammer, 1 the gravity scenario
    \* NewtonsThirdLawSimulation
    physicsRef,    \* physicsRef.current: the hammer's AnimationState
    simState,      \* React state mirroring physicsRef.current.state
    massOption,    \* selected hammer mass
    speedOption,   \* selected swing speed
    canvas,        \* what the last drawScene call put on the canvas
    hitTrace,      \* history: the last Hit and what followed it
    resetTrace,    \* history: the last full reset and what followed it
    impactLog,     \* history: selections, impulse, depth increment and
                   \* force of each impact since a reset
    \* GravitySimulation
    G_physicsRef,     \* physicsRef.current: the orbit's AnimationState
    G_simState,       \* React state mirroring G_physicsRef.state
    earthMass,        \* selected Earth mass key
    moonMass,         \* selected Moon mass key
    showForceArrows,  \* checkbox Force Arrows
    showOrbitalPath,  \* checkbox Orbital Path
    isDraggingRef,    \* isDraggingRef.current
    G_canvas,         \* what the last drawScene call put on the canvas
    runFrames,        \* history: Running frames since the start, mount or Reset
    commands,         \* history: user inputs to the gravity scenario since mount
    dragTrace,        \* history: a drag move changed moonDistance, and the frame after it
    \* requestAnimationFrame
    rafRef,           \* rafRef.current of the hammer scenario (0 for null)
    rafPending,       \* ids of the hammer scenario's callbacks awaiting a frame
    G_rafRef,         \* rafRef.current of the gravity scenario (0 for null)
    G_rafPending,     \* ids of the gravity scenario's callbacks awaiting a frame
    \* environment and tab history
    surface,          \* what the browser hands to drawScene: "ok", or no
                      \* canvas element, or no 2D context
    unmountTrace      \* history (when switched on): a scenario that had left
                      \* its initial state has been unmounted

hvars == <<physicsRef, simState, massOption, speedOption, canvas,
           hitTrace, resetTrace, impactLog>>

gvars == <<G_physicsRef, G_simState, earthMass, moonMass, showForceArrows,
           showOrbitalPath, isDraggingRef, G_canvas, runFrames, commands,
           dragTrace>>

rvars == <<rafRef, rafPending, G_rafRef, G_rafPending>>

evars == <<surface, unmountTrace>>

vars == <<tabValue, hvars, gvars, rvars, evars>>

Surfaces == {"ok", "noCanvas", "noContext"}

\* cancelAnimationFrame that leaves the callback pending.
cancelNothing(pending, id) == pending

\* cancelAnimationFrame(id): the callback with that id no longer runs.
cancelAnimationFrame(pending, id) == pending \ {id}

\* requestAnimationFrame(update): one more callback is pending; its id is
\* one no pending callback has (ids only matter up to equality).
requestAnimationFrame(pending) ==
    LET id == CHOOSE i \in 1..(Cardinality(pending) + 1) :
                  /\ i \notin pending
                  /\ \A j \in 1..(i - 1) : j \in pending
    IN  [pending |-> pending \cup {id}, id |-> id]

\* The cleanup of the effect: if (rafRef.current) cancelAnimationFrame(...)
effectCleanup(pending, ref) ==
    IF ref # 0 THEN cancelAnimationFrame(pending, ref) ELSE pending

\* useEffect(..., [update]) when update is re-created: cleanup, then the
\* effect requests a frame for the new update.
rerunEffect(pending, ref) == requestAnimationFrame(effectCleanup(pending, ref))

\* drawArrow: the shaft runs from (x, y) to (x + dir.x * length,
\* y + dir.y * length); dir is a unit vector with integer components here.
drawArrow(x, y, dir, length, label) ==
    [fromX |-> x, fromY |-> y,
     toX |-> x + dir.x * length, toY |-> y + dir.y * length,
     label |-> label]

\* drawForceArrows with the reaction arrow drawn at half the length.
drawForceArrowsUnequal(p) ==
    LET contactX == NAIL_X * Unit
        contactY == (GROUND_Y - 50) * Unit + p.nailDepth + 5 * Unit
    IN  IF p.state = "pause"
        THEN << drawArrow(contactX, contactY, [x |-> 0, y |-> -1],
                          p.forceMagnitude \div 2, "F_N"),
                drawArrow(contactX, contactY, [x |-> 0, y |-> 1],
                          p.forceMagnitude, "F_H") >>
        ELSE << >>

\* drawForceArrows with the arrows drawn in Contact as well as in Pause.
drawForceArrowsInContact(p) ==
    LET currentNailY == (GROUND_Y - 50) * Unit + p.nailDepth
        contactX == NAIL_X * Unit
        contactY == currentNailY + 5 * Unit
    IN  IF p.state = "pause" \/ p.state = "contact"
        THEN << drawArrow(contactX, contactY, [x |-> 0, y |-> -1],
                          p.forceMagnitude, "F_N"),
                drawArrow(contactX, contactY, [x |-> 0, y |-> 1],
                          p.forceMagnitude, "F_H") >>
        ELSE << >>

\* The arrows drawScene draws for the record p (step 5 of drawScene).
drawForceArrows(p) ==
    LET currentNailY == (GROUND_Y - 50) * Unit + p.nailDepth
        contactX == NAIL_X * Unit
        contactY == currentNailY + 5 * Unit
    IN  IF p.state = "pause"
        THEN << drawArrow(contactX, contactY, [x |-> 0, y |-> -1],
                          p.forceMagnitude, "F_N"),
                drawArrow(contactX, contactY, [x |-> 0, y |-> 1],
                          p.forceMagnitude, "F_H") >>
        ELSE << >>

\* drawScene: the canvas is cleared and redrawn from the record.
drawScene(p) ==
    [nailY |-> (GROUND_Y - 50) * Unit + p.nailDepth,
     hammerRotation |-> 15708 + p.hammerAngle,
     arrows |-> drawForceArrows(p)]

\* Before the first frame nothing has been drawn.
\* drawScene that paints whatever canvasRef and getContext return.
drawSceneUnguarded(s, old, p) == drawScene(p)

\* The head of drawScene: it returns before painting when canvasRef.current
\* or its 2D context is missing, and what is on screen stays as it was.
drawSceneGuard(s, old, p) == IF s # "ok" THEN old ELSE drawScene(p)

BlankCanvas == [nailY |-> 0, hammerRotation |-> 0, arrows |-> << >>]

\* updateSwinging with the swing carried on to angle 0.
updateSwingingToGround(p, mass, speed) ==
    LET angle == p.hammerAngle - speed
        impulse == calculateImpulse(mass, speed)
        depth == calculatePenetrationDepth(impulse)
    IN  IF angle <= 0
        THEN [p EXCEPT !.hammerAngle = angle,
                       !.state = "contact",
                       !.maxDepth = @ + depth,
                       !.forceMagnitude = calculateForceMagnitude(impulse)]
        ELSE [p EXCEPT !.hammerAngle = angle]

\* updateSwinging with maxDepth overwritten instead of accumulated.
updateSwingingOverwrite(p, mass, speed) ==
    LET angle == p.hammerAngle - speed
        impulse == calculateImpulse(mass, speed)
        depth == calculatePenetrationDepth(impulse)
    IN  IF angle <= HAMMER_IMPACT_ANGLE
        THEN [p EXCEPT !.hammerAngle = angle,
                       !.state = "contact",
                       !.maxDepth = depth,
                       !.forceMagnitude = calculateForceMagnitude(impulse)]
        ELSE [p EXCEPT !.hammerAngle = angle]

\* case 'swinging' of update
updateSwinging(p, mass, speed) ==
    LET angle == p.hammerAngle - speed
        impulse == calculateImpulse(mass, speed)
        depth == calculatePenetrationDepth(impulse)
    IN  IF angle <= HAMMER_IMPACT_ANGLE
        THEN [p EXCEPT !.hammerAngle = angle,
                       !.state = "contact",
                       !.maxDepth = @ + depth,
                       !.forceMagnitude = calculateForceMagnitude(impulse)]
        ELSE [p EXCEPT !.hammerAngle = angle]

\* updateContact with the force cleared on entering Pause.
updateContactClearsForce(p) ==
    IF p.nailDepth < p.maxDepth
    THEN [p EXCEPT !.nailDepth = @ + 5 * Unit]
    ELSE [p EXCEPT !.nailDepth = p.maxDepth, !.state = "pause",
                   !.forceMagnitude = 0]

\* case 'contact' of update
updateContact(p) ==
    IF p.nailDepth < p.maxDepth
    THEN [p EXCEPT !.nailDepth = @ + 5 * Unit]
    ELSE [p EXCEPT !.nailDepth = p.maxDepth, !.state = "pause"]

\* case 'resetting' of update
updateResetting(p) ==
    LET angle == p.hammerAngle + 1000
        depth == IF p.nailDepth > 0 THEN p.nailDepth - 2 * Unit
                                    ELSE p.nailDepth
    IN  IF angle >= INITIAL_HAMMER_ANGLE
        THEN [p EXCEPT !.state = "idle", !.nailDepth = 0,
                       !.hammerAngle = INITIAL_HAMMER_ANGLE]
        ELSE [p EXCEPT !.hammerAngle = angle, !.nailDepth = depth]

\* The switch of update with a Pause that lifts the hammer back, as
\* Resetting does.
updatePhysicsPauseLifts(p, mass, speed) ==
    CASE p.state = "idle" -> [p EXCEPT !.hammerAngle = INITIAL_HAMMER_ANGLE]
      [] p.state = "swinging" -> updateSwinging(p, mass, speed)
      [] p.state = "contact" -> updateContact(p)
      [] p.state = "pause" -> updateResetting(p)
      [] p.state = "resetting" -> updateResetting(p)

\* The switch of update: the record after one frame.
updatePhysics(p, mass, speed) ==
    CASE p.state = "idle" -> [p EXCEPT !.hammerAngle = INITIAL_HAMMER_ANGLE]
      [] p.state = "swinging" -> updateSwinging(p, mass, speed)
      [] p.state = "contact" -> updateContact(p)
      [] p.state = "pause" -> p
      [] p.state = "resetting" -> updateResetting(p)

\* update: one animation frame (state machine, setSimState on a phase
\* change, drawScene; the next frame is requested at its end).
update ==
    \E id \in rafPending :
    LET p == updatePhysics(physicsRef, MASS_MAP[massOption],
                           SWING_SPEED_RADS[speedOption])
        impact == physicsRef.state = "swinging" /\ p.state = "contact"
        impulse == calculateImpulse(MASS_MAP[massOption],
                                    SWING_SPEED_RADS[speedOption])
        next == requestAnimationFrame(rafPending \ {id})
    IN  /\ rafPending' = next.pending
        /\ rafRef' = next.id
        /\ physicsRef' = p
        /\ simState' = IF p.state # physicsRef.state THEN p.state ELSE simState
        /\ canvas' = drawSceneGuard(surface, canvas, p)
        /\ hitTrace' =
             [hitTrace EXCEPT
                !.frames = IF physicsRef.state = "swinging" THEN @ + 1 ELSE @,
                !.contacts = IF p.state = "contact" /\ physicsRef.state # "contact"
                             THEN @ + 1 ELSE @,
                !.pauseFrames = IF physicsRef.state = "pause"
                                THEN Min(@ + 1, MaxPauseFrames) ELSE 0]
        /\ resetTrace' = [resetTrace EXCEPT !.ticked = (resetTrace.from # "none")]
        /\ impactLog' = IF impact
                        THEN Append(impactLog,
                                 [mass |-> massOption,
                                  speed |-> speedOption,
                                  impulse |-> impulse,
                                  depth |-> p.maxDepth - physicsRef.maxDepth,
                                  force |-> p.forceMagnitude])
                        ELSE impactLog
        /\ UNCHANGED <<tabValue, evars, massOption, speedOption, gvars,
                       G_rafRef, G_rafPending>>

\* handleHit without its setSimState call.
handleHitNoSetState ==
    /\ tabValue = 0
    /\ simState # "swinging"
    /\ Len(impactLog) < MaxImpacts
    /\ physicsRef' = [physicsRef EXCEPT !.state = "swinging"]
    /\ hitTrace' = [from |-> physicsRef.state, quiet |-> TRUE,
                    frames |-> 0, contacts |-> 0, pauseFrames |-> 0]
    /\ resetTrace' = [from |-> "none", ticked |-> FALSE]
    /\ UNCHANGED <<tabValue, evars, simState, massOption, speedOption, canvas,
                   impactLog, gvars, rvars>>

\* handleHit, the onClick of the primary button (disabled while
\* simState is 'swinging').
handleHit ==
    /\ tabValue = 0
    /\ simState # "swinging"
    /\ Len(impactLog) < MaxImpacts
    /\ physicsRef' = [physicsRef EXCEPT !.state = "swinging"]
    /\ simState' = "swinging"
    /\ hitTrace' = [from |-> physicsRef.state, quiet |-> TRUE,
                    frames |-> 0, contacts |-> 0, pauseFrames |-> 0]
    /\ resetTrace' = [from |-> "none", ticked |-> FALSE]
    /\ UNCHANGED <<tabValue, evars, massOption, speedOption, canvas, impactLog,
                   gvars, rvars>>

\* resetPhysics without the assignment to maxDepth.
resetPhysicsKeepsMaxDepth(p) ==
    [p EXCEPT !.state = "idle",
              !.hammerAngle = INITIAL_HAMMER_ANGLE,
              !.nailDepth = 0,
              !.forceMagnitude = 0]

\* The assignments of handleReset to the record.
resetPhysics(p) ==
    [p EXCEPT !.state = "idle",
              !.hammerAngle = INITIAL_HAMMER_ANGLE,
              !.nailDepth = 0,
              !.maxDepth = 0,
              !.forceMagnitude = 0]

\* handleReset, the onClick of the refresh button.
handleReset ==
    /\ tabValue = 0
    /\ physicsRef' = resetPhysics(physicsRef)
    /\ simState' = "idle"
    /\ hitTrace' = [hitTrace EXCEPT !.quiet = FALSE, !.pauseFrames = 0]
    /\ resetTrace' = [from |-> physicsRef.state, ticked |-> FALSE]
    /\ impactLog' = << >>
    /\ UNCHANGED <<tabValue, evars, massOption, speedOption, canvas, gvars, rvars>>

\* onChange of the Hammer Mass radio group
setMassOption ==
    \E m \in MassOptions :
        /\ tabValue = 0
        /\ m # massOption
        /\ massOption' = m
        /\ hitTrace' = [hitTrace EXCEPT !.quiet = FALSE]
        /\ rafPending' = rerunEffect(rafPending, rafRef).pending
        /\ rafRef' = rerunEffect(rafPending, rafRef).id
        /\ UNCHANGED <<tabValue, evars, physicsRef, simState, speedOption, canvas,
                       resetTrace, impactLog, gvars, G_rafRef, G_rafPending>>

\* onChange of the Swing Speed radio group
setSpeedOption ==
    \E s \in SpeedOptions :
        /\ tabValue = 0
        /\ s # speedOption
        /\ speedOption' = s
        /\ hitTrace' = [hitTrace EXCEPT !.quiet = FALSE]
        /\ rafPending' = rerunEffect(rafPending, rafRef).pending
        /\ rafRef' = rerunEffect(rafPending, rafRef).id
        /\ UNCHANGED <<tabValue, evars, physicsRef, simState, massOption, canvas,
                       resetTrace, impactLog, gvars, G_rafRef, G_rafPending>>

\* The label of the primary button: 'HIT' in Idle and Pause, 'UP' otherwise.
primaryButtonLabel(s) == IF s = "idle" \/ s = "pause" THEN "HIT" ELSE "UP"

\* The legend overlay is rendered only while simState is 'pause'.
LegendOverlay(s) == s = "pause"

\* The state NewtonsThirdLawSimulation mounts with.
HammerInit ==
    /\ physicsRef = InitialAnimationState
    /\ simState = "idle"
    /\ massOption = "medium"
    /\ speedOption = "medium"
    /\ canvas = BlankCanvas
    /\ hitTrace = [from |-> "none", quiet |-> FALSE, frames |-> 0, contacts |-> 0,
                   pauseFrames |-> 0]
    /\ resetTrace = [from |-> "none", ticked |-> FALSE]
    /\ impactLog = << >>

\* ------------------------------------------- GravitySimulation.tsx
\* Lengths are in Units (1e-4 px), angles in micro-radians, masses in
\* halves of the Earth/Moon unit mass (the keys 0.5, earth, 1.5, 2).
\* IEEE division, multiplication and sqrt are sign-symmetric; the
\* fixed-point operators below round toward zero to keep that.

GravitySimState == {"idle", "running", "paused"}

MassKeys == {"0.5", "earth", "1.5", "2"}

EARTH_X == 400

EARTH_Y == 300

MOON_RADIUS == 15

MIN_DISTANCE == 150

MAX_DISTANCE == 400

INITIAL_DISTANCE == 280

\* { '0.5': 0.5, 'earth': 1, '1.5': 1.5, '2': 2 }, in halves
G_MASS_MAP == ("0.5" :> 1) @@ ("earth" :> 2) @@ ("1.5" :> 3) @@ ("2" :> 4)

GRAVITATIONAL_CONSTANT == 15000

\* The trail length above which update shifts the oldest point out.
TrailCap == 500

\* pi in micro-radians
Pi == 3141593

\* a / b rounded toward zero (b > 0)
divT(a, b) == IF a < 0 THEN -((-a) \div b) ELSE a \div b

RECURSIVE sqrtSearch(_, _, _)
sqrtSearch(n, lo, hi) ==
    IF lo >= hi THEN lo
    ELSE LET mid == (lo + hi + 1) \div 2
         IN  IF mid * mid <= n THEN sqrtSearch(n, mid, hi)
                               ELSE sqrtSearch(n, lo, mid - 1)

\* Math.sqrt on integers: the floor of the square root
isqrt(n) == sqrtSearch(n, 0, 46340)

\* cos and sin of x in [0, pi/2], x in Units of 1e-4 rad, result in Units
\* (Taylor polynomials to x^8 and x^9).
cosQ(x) ==
    LET x2 == (x * x) \div Unit
        t1 == x2 \div 2
        t2 == (t1 * x2) \div (12 * Unit)
        t3 == (t2 * x2) \div (30 * Unit)
        t4 == (t3 * x2) \div (56 * Unit)
    IN  Unit - t1 + t2 - t3 + t4

sinQ(x) ==
    LET x2 == (x * x) \div Unit
        s1 == (x * x2) \div (6 * Unit)
        s2 == (s1 * x2) \div (20 * Unit)
        s3 == (s2 * x2) \div (42 * Unit)
        s4 == (s3 * x2) \div (72 * Unit)
    IN  x - s1 + s2 - s3 + s4

\* Math.cos of an angle in micro-radians, in Units
Cos(a) ==
    LET m == a % (2 * Pi)
    IN  IF m <= Pi \div 2 THEN cosQ(m \div 100)
        ELSE IF m <= Pi THEN -cosQ((Pi - m) \div 100)
        ELSE IF m <= Pi + Pi \div 2 THEN -cosQ((m - Pi) \div 100)
        ELSE cosQ((2 * Pi - m) \div 100)

\* Math.sin of an angle in micro-radians, in Units
Sin(a) ==
    LET m == a % (2 * Pi)
    IN  IF m <= Pi \div 2 THEN sinQ(m \div 100)
        ELSE IF m <= Pi THEN sinQ((Pi - m) \div 100)
        ELSE IF m <= Pi + Pi \div 2 THEN -sinQ((m - Pi) \div 100)
        ELSE -sinQ((2 * Pi - m) \div 100)

\* The angle in [lo, hi] within [0, pi/2] whose direction is (ax, ay),
\* ax, ay >= 0 not both 0: the least angle with sin * ax >= cos * ay.
RECURSIVE atanSearch(_, _, _, _)
atanSearch(ay, ax, lo, hi) ==
    IF lo >= hi THEN lo
    ELSE LET mid == (lo + hi) \div 2
         IN  IF Sin(mid) * ax >= Cos(mid) * ay
             THEN atanSearch(ay, ax, lo, mid)
             ELSE atanSearch(ay, ax, mid + 1, hi)

\* Math.atan2(dy, dx) in micro-radians, dx and dy in pixels
atan2(dy, dx) ==
    IF dx = 0 /\ dy = 0 THEN 0
    ELSE LET base == IF dy = 0 THEN 0
                     ELSE IF dx = 0 THEN Pi \div 2
                     ELSE atanSearch(Abs(dy), Abs(dx), 0, Pi \div 2)
         IN  IF dx >= 0 /\ dy >= 0 THEN base
             ELSE IF dx < 0 /\ dy >= 0 THEN Pi - base
             ELSE IF dx < 0 THEN -(Pi - base)
             ELSE -base

\* The record G_physicsRef is constructed with.
G_InitialAnimationState ==
    [state |-> "idle",
     moonX |-> (EARTH_X + INITIAL_DISTANCE) * Unit,
     moonY |-> EARTH_Y * Unit,
     moonAngle |-> 0,
     moonDistance |-> INITIAL_DISTANCE * Unit,
     moonVelocity |-> 0,
     forceMagnitude |-> 0,
     pathPoints |-> << >>]

\* Gravity.calculateForceMagnitude of the library:
\* (G * mass1 * mass2) / (distance * distance), 0 when distance <= 0;
\* masses in halves, distance and result in Units.
Gravity_calculateForceMagnitude(Gc, mass1, mass2, distance) ==
    IF distance <= 0 THEN 0
    ELSE LET dc == distance \div 100
             sq == (dc * dc) \div Unit
         IN  (Gc * mass1 * mass2 * (Unit \div 4)) \div sq

\* The force computed from the square of the distance for every distance
\* but 0.
calculateGravitationalForceEven(earthMassVal, moonMassVal, distance) ==
    IF distance = 0 THEN 0
    ELSE LET dc == distance \div 100
             sq == (dc * dc) \div Unit
         IN  (GRAVITATIONAL_CONSTANT * earthMassVal * moonMassVal
                  * (Unit \div 4)) \div sq

\* (G * earthMassVal * moonMassVal) / (distance * distance), 0 when
\* distance <= 0; masses in halves, distance and result in Units.
calculateGravitationalForce(earthMassVal, moonMassVal, distance) ==
    IF distance <= 0 THEN 0
    ELSE LET dc == distance \div 100
             sq == (dc * dc) \div Unit
         IN  (GRAVITATIONAL_CONSTANT * earthMassVal * moonMassVal
                  * (Unit \div 4)) \div sq

\* An orbital speed that does not depend on the distance: the speed at
\* the initial distance.
calculateOrbitalVelocityFlat(earthMassVal, distance) ==
    IF distance <= 0 THEN 0
    ELSE LET dc == (INITIAL_DISTANCE * Unit) \div 100
             q == (GRAVITATIONAL_CONSTANT * earthMassVal * (Unit \div 2)) \div dc
         IN  isqrt(q * Unit) * 10

\* Math.sqrt((G * earthMassVal) / distance), 0 when distance <= 0;
\* mass in halves, distance and result in Units.
calculateOrbitalVelocity(earthMassVal, distance) ==
    IF distance <= 0 THEN 0
    ELSE LET dc == distance \div 100
             q == (GRAVITATIONAL_CONSTANT * earthMassVal * (Unit \div 2)) \div dc
         IN  isqrt(q * Unit) * 10

\* EARTH + distance * cos/sin(angle)
moonPosition(distance, angle) ==
    [x |-> EARTH_X * Unit + divT((distance \div 100) * Cos(angle), 100),
     y |-> EARTH_Y * Unit + divT((distance \div 100) * Sin(angle), 100)]

\* drawArrow: the shaft runs from (x, y) to (x + dir.x * length,
\* y + dir.y * length); dir has components in Units.
G_drawArrow(x, y, dir, length, label) ==
    [fromX |-> x, fromY |-> y, dir |-> dir, length |-> length,
     toX |-> x + divT(dir.x * length, Unit),
     toY |-> y + divT(dir.y * length, Unit),
     label |-> label]

\* v / |v| as drawScene computes it for both arrows
unitVector(vx, vy) ==
    LET cx == divT(vx, 100)
        cy == divT(vy, 100)
        mag == isqrt(cx * cx + cy * cy)
    IN  [x |-> divT(cx * Unit, mag), y |-> divT(cy * Unit, mag)]

\* drawForceArrows with the Moon-on-Earth arrow scaled by the mass ratio.
G_drawForceArrowsByMass(p, show) ==
    IF show
    THEN << G_drawArrow(p.moonX, p.moonY,
                unitVector(EARTH_X * Unit - p.moonX, EARTH_Y * Unit - p.moonY),
                p.forceMagnitude, "F_E"),
            G_drawArrow(EARTH_X * Unit, EARTH_Y * Unit,
                unitVector(p.moonX - EARTH_X * Unit, p.moonY - EARTH_Y * Unit),
                (p.forceMagnitude * G_MASS_MAP[moonMass])
                    \div G_MASS_MAP[earthMass], "F_M") >>
    ELSE << >>

\* The arrows drawScene draws (step 5 of drawScene).
G_drawForceArrows(p, show) ==
    IF show
    THEN << G_drawArrow(p.moonX, p.moonY,
                unitVector(EARTH_X * Unit - p.moonX, EARTH_Y * Unit - p.moonY),
                p.forceMagnitude, "F_E"),
            G_drawArrow(EARTH_X * Unit, EARTH_Y * Unit,
                unitVector(p.moonX - EARTH_X * Unit, p.moonY - EARTH_Y * Unit),
                p.forceMagnitude, "F_M") >>
    ELSE << >>

\* drawScene: background, trail, Earth, Moon, arrows, distance label.
G_drawScene(p, showArrows, showPath) ==
    [moonX |-> p.moonX, moonY |-> p.moonY,
     pathLength |-> IF showPath /\ Len(p.pathPoints) > 1
                    THEN Len(p.pathPoints) ELSE 0,
     arrows |-> G_drawForceArrows(p, showArrows),
     distanceLabel |-> (p.moonDistance + Unit \div 2) \div Unit]

\* The head of the gravity drawScene: the same two early returns.
G_drawSceneGuard(s, old, p, showArrows, showPath) ==
    IF s # "ok" THEN old ELSE G_drawScene(p, showArrows, showPath)

G_BlankCanvas ==
    [moonX |-> 0, moonY |-> 0, pathLength |-> 0, arrows |-> << >>,
     distanceLabel |-> 0]

\* updateRunning that advances the angle by the velocity the record held
\* before the frame.
updateRunningLaggedVelocity(p, earthMassVal, moonMassVal) ==
    LET force == calculateGravitationalForce(earthMassVal, moonMassVal,
                                             p.moonDistance)
        orbitalSpeed == calculateOrbitalVelocity(earthMassVal, p.moonDistance)
        angle == p.moonAngle + (p.moonVelocity * Unit) \div (p.moonDistance \div 100)
        pos == moonPosition(p.moonDistance, angle)
        kept == IF Len(p.pathPoints) > TrailCap THEN Tail(p.pathPoints)
                                            ELSE p.pathPoints
    IN  [p EXCEPT !.forceMagnitude = force,
                  !.moonVelocity = orbitalSpeed \div 10,
                  !.moonAngle = angle,
                  !.moonX = pos.x,
                  !.moonY = pos.y,
                  !.pathPoints = Append(kept, pos)]

\* updateRunning with the force and velocity of the previous frame kept.
updateRunningStale(p, earthMassVal, moonMassVal) ==
    LET angle == p.moonAngle
                   + (p.moonVelocity * Unit) \div (p.moonDistance \div 100)
        pos == moonPosition(p.moonDistance, angle)
        kept == IF Len(p.pathPoints) > TrailCap THEN Tail(p.pathPoints)
                                                ELSE p.pathPoints
    IN  [p EXCEPT !.moonAngle = angle,
                  !.moonX = pos.x,
                  !.moonY = pos.y,
                  !.pathPoints = Append(kept, pos)]

\* updateRunning with the orbit decaying by the frame's velocity.
updateRunningDecays(p, earthMassVal, moonMassVal) ==
    LET force == calculateGravitationalForce(earthMassVal, moonMassVal,
                                             p.moonDistance)
        orbitalSpeed == calculateOrbitalVelocity(earthMassVal, p.moonDistance)
        velocity == orbitalSpeed \div 10
        angle == p.moonAngle + (velocity * Unit) \div (p.moonDistance \div 100)
        pos == moonPosition(p.moonDistance, angle)
        kept == IF Len(p.pathPoints) > TrailCap THEN Tail(p.pathPoints)
                                            ELSE p.pathPoints
    IN  [p EXCEPT !.forceMagnitude = force,
                  !.moonVelocity = velocity,
                  !.moonAngle = angle,
                  !.moonDistance = @ - velocity,
                  !.moonX = pos.x,
                  !.moonY = pos.y,
                  !.pathPoints = Append(kept, pos)]

\* The body of update for a Running record.
updateRunning(p, earthMassVal, moonMassVal) ==
    LET force == calculateGravitationalForce(earthMassVal, moonMassVal,
                                             p.moonDistance)
        orbitalSpeed == calculateOrbitalVelocity(earthMassVal, p.moonDistance)
        velocity == orbitalSpeed \div 10
        angle == p.moonAngle + (velocity * Unit) \div (p.moonDistance \div 100)
        pos == moonPosition(p.moonDistance, angle)
        kept == IF Len(p.pathPoints) > TrailCap THEN Tail(p.pathPoints)
                                            ELSE p.pathPoints
    IN  [p EXCEPT !.forceMagnitude = force,
                  !.moonVelocity = velocity,
                  !.moonAngle = angle,
                  !.moonX = pos.x,
                  !.moonY = pos.y,
                  !.pathPoints = Append(kept, pos)]

\* G_updatePhysics with the orbit advanced in every phase.
G_updatePhysicsAlways(p, earthMassVal, moonMassVal) ==
    updateRunning(p, earthMassVal, moonMassVal)

\* The physics of update: the record after one frame.
G_updatePhysics(p, earthMassVal, moonMassVal) ==
    IF p.state = "running" THEN updateRunning(p, earthMassVal, moonMassVal)
                           ELSE p

\* update: one animation frame of the gravity scenario (physics, drawScene,
\* and the request for the next frame).
G_update ==
    \E id \in G_rafPending :
    LET p == G_updatePhysics(G_physicsRef, G_MASS_MAP[earthMass],
                             G_MASS_MAP[moonMass])
        next == requestAnimationFrame(G_rafPending \ {id})
    IN  /\ G_physicsRef.state = "running" => runFrames < MaxRunFrames
        /\ G_rafPending' = next.pending
        /\ G_rafRef' = next.id
        /\ dragTrace' = [moved |-> FALSE,
                         framedIn |-> IF dragTrace.moved
                                      THEN G_physicsRef.state ELSE "none"]
        /\ G_physicsRef' = p
        /\ G_canvas' = G_drawSceneGuard(surface, G_canvas, p,
                                        showForceArrows, showOrbitalPath)
        /\ runFrames' = IF G_physicsRef.state = "running"
                        THEN runFrames + 1 ELSE runFrames
        /\ UNCHANGED <<tabValue, evars, hvars, G_simState, earthMass, moonMass,
                       showForceArrows, showOrbitalPath, isDraggingRef,
                       commands, rafRef, rafPending>>

\* A user input to the mounted gravity scenario (counted, for the bound).
UserInput == commands < MaxCommands /\ commands' = commands + 1

\* handleCanvasMouseDown at canvas position (x, y), in pixels
handleCanvasMouseDownAt(off) ==
    LET x == G_physicsRef.moonX \div Unit + off
        y == G_physicsRef.moonY \div Unit
        ddx == x * 10 - divT(G_physicsRef.moonX, 1000)
        ddy == y * 10 - divT(G_physicsRef.moonY, 1000)
        distToMoon == isqrt(ddx * ddx + ddy * ddy)
    IN  /\ tabValue = 1
        /\ UserInput
        /\ isDraggingRef' = IF /\ surface # "noCanvas"
                               /\ distToMoon < (MOON_RADIUS + 10) * 10
                            THEN TRUE ELSE isDraggingRef
        /\ UNCHANGED <<tabValue, evars, hvars, dragTrace, rvars, G_physicsRef, G_simState,
                       earthMass, moonMass, showForceArrows,
                       showOrbitalPath, G_canvas, runFrames>>

\* handleCanvasMouseDown, the onMouseDown of the canvas
handleCanvasMouseDown == \E off \in PressOffsets : handleCanvasMouseDownAt(off)

\* Math.sqrt(dx * dx + dy * dy) and Math.atan2(dy, dx) for the pointer
\* positions of the model, relative to the Earth's centre.
pointerPolar ==
    [pt \in PointerMoves |->
        LET dx == pt[1] - EARTH_X
            dy == pt[2] - EARTH_Y
        IN  [distance |-> isqrt(100 * (dx * dx + dy * dy)) * 1000,
             angle |-> atan2(dy, dx)]]

\* constrainDistance without the upper limit.
constrainDistanceNoMax(raw) == Max(MIN_DISTANCE * Unit, raw)

\* Math.max(MIN_DISTANCE, Math.min(MAX_DISTANCE, distance))
constrainDistance(raw) ==
    Max(MIN_DISTANCE * Unit, Min(MAX_DISTANCE * Unit, raw))

\* The record after handleCanvasMouseMove at (x, y) during a drag.
dragMoon(p, x, y) ==
    LET raw == pointerPolar[<<x, y>>].distance
        distance == constrainDistance(raw)
        angle == pointerPolar[<<x, y>>].angle
        pos == moonPosition(distance, angle)
    IN  [p EXCEPT !.moonDistance = distance,
                  !.moonAngle = angle,
                  !.moonX = pos.x,
                  !.moonY = pos.y]

\* handleCanvasMouseMove without the test of isDraggingRef.
handleCanvasMouseMoveUndragged ==
    \E pt \in PointerMoves :
        /\ tabValue = 1
        /\ UserInput
        /\ G_physicsRef' = dragMoon(G_physicsRef, pt[1], pt[2])
        /\ dragTrace' =
             IF G_physicsRef'.moonDistance # G_physicsRef.moonDistance
             THEN [moved |-> TRUE, framedIn |-> "none"] ELSE dragTrace
        /\ UNCHANGED <<tabValue, evars, hvars, rvars, G_simState, earthMass, moonMass,
                       showForceArrows, showOrbitalPath, isDraggingRef,
                       G_canvas, runFrames>>

\* handleCanvasMouseMove at canvas position (x, y), in pixels
handleCanvasMouseMove ==
    \E pt \in PointerMoves :
        /\ tabValue = 1
        /\ UserInput
        /\ G_physicsRef' = IF isDraggingRef /\ surface # "noCanvas"
                           THEN dragMoon(G_physicsRef, pt[1], pt[2])
                           ELSE G_physicsRef
        /\ dragTrace' =
             IF isDraggingRef /\ G_physicsRef'.moonDistance # G_physicsRef.moonDistance
             THEN [moved |-> TRUE, framedIn |-> "none"] ELSE dragTrace
        /\ UNCHANGED <<tabValue, evars, hvars, rvars, G_simState, earthMass, moonMass,
                       showForceArrows, showOrbitalPath, isDraggingRef,
                       G_canvas, runFrames>>

\* handleCanvasMouseUp (onMouseUp and onMouseLeave)
handleCanvasMouseUp ==
    /\ tabValue = 1
    /\ UserInput
    /\ isDraggingRef' = FALSE
    /\ UNCHANGED <<tabValue, evars, hvars, dragTrace, rvars, G_physicsRef, G_simState, earthMass,
                   moonMass, showForceArrows, showOrbitalPath, G_canvas,
                   runFrames>>

\* handlePlay (the Play button is disabled while simState is 'running')
handlePlay ==
    /\ tabValue = 1
    /\ UserInput
    /\ G_simState # "running"
    /\ G_physicsRef' = [G_physicsRef EXCEPT !.state = "running"]
    /\ G_simState' = "running"
    /\ UNCHANGED <<tabValue, evars, hvars, dragTrace, rvars, earthMass, moonMass, showForceArrows,
                   showOrbitalPath, isDraggingRef, G_canvas, runFrames>>

\* handlePause behind a button that is never disabled.
handlePauseFromAnyPhase ==
    /\ tabValue = 1
    /\ UserInput
    /\ G_physicsRef' = [G_physicsRef EXCEPT !.state = "paused"]
    /\ G_simState' = "paused"
    /\ UNCHANGED <<tabValue, evars, hvars, dragTrace, rvars, earthMass, moonMass, showForceArrows,
                   showOrbitalPath, isDraggingRef, G_canvas, runFrames>>

\* handlePause (the Pause button is enabled only while simState is 'running')
handlePause ==
    /\ tabValue = 1
    /\ UserInput
    /\ G_simState = "running"
    /\ G_physicsRef' = [G_physicsRef EXCEPT !.state = "paused"]
    /\ G_simState' = "paused"
    /\ UNCHANGED <<tabValue, evars, hvars, dragTrace, rvars, earthMass, moonMass, showForceArrows,
                   showOrbitalPath, isDraggingRef, G_canvas, runFrames>>

\* G_resetPhysics without the assignment to pathPoints.
G_resetPhysicsKeepsTrail(p) ==
    [p EXCEPT !.state = "idle",
              !.moonX = (EARTH_X + INITIAL_DISTANCE) * Unit,
              !.moonY = EARTH_Y * Unit,
              !.moonAngle = 0,
              !.moonDistance = INITIAL_DISTANCE * Unit,
              !.moonVelocity = 0,
              !.forceMagnitude = 0]

\* The assignments of handleReset to the record.
G_resetPhysics(p) ==
    [p EXCEPT !.state = "idle",
              !.moonX = (EARTH_X + INITIAL_DISTANCE) * Unit,
              !.moonY = EARTH_Y * Unit,
              !.moonAngle = 0,
              !.moonDistance = INITIAL_DISTANCE * Unit,
              !.moonVelocity = 0,
              !.forceMagnitude = 0,
              !.pathPoints = << >>]

\* handleReset of the gravity scenario
G_handleReset ==
    /\ tabValue = 1
    /\ UserInput
    /\ G_physicsRef' = G_resetPhysics(G_physicsRef)
    /\ G_simState' = "idle"
    /\ runFrames' = 0
    /\ dragTrace' = [moved |-> FALSE, framedIn |-> "none"]
    /\ UNCHANGED <<tabValue, evars, hvars, rvars, earthMass, moonMass, showForceArrows,
                   showOrbitalPath, isDraggingRef, G_canvas>>

\* onChange of the Earth Mass slider
setEarthMass ==
    \E k \in MassKeys :
        /\ tabValue = 1
        /\ UserInput
        /\ k # earthMass
        /\ earthMass' = k
        /\ G_rafPending' = rerunEffect(G_rafPending, G_rafRef).pending
        /\ G_rafRef' = rerunEffect(G_rafPending, G_rafRef).id
        /\ UNCHANGED <<tabValue, evars, hvars, dragTrace, rafRef, rafPending, G_physicsRef, G_simState, moonMass,
                       showForceArrows, showOrbitalPath, isDraggingRef,
                       G_canvas, runFrames>>

\* onChange of the Moon Mass slider
setMoonMass ==
    \E k \in MassKeys :
        /\ tabValue = 1
        /\ UserInput
        /\ k # moonMass
        /\ moonMass' = k
        /\ G_rafPending' = rerunEffect(G_rafPending, G_rafRef).pending
        /\ G_rafRef' = rerunEffect(G_rafPending, G_rafRef).id
        /\ UNCHANGED <<tabValue, evars, hvars, dragTrace, rafRef, rafPending, G_physicsRef, G_simState, earthMass,
                       showForceArrows, showOrbitalPath, isDraggingRef,
                       G_canvas, runFrames>>

\* onChange of the Force Arrows checkbox
setShowForceArrows ==
    /\ tabValue = 1
    /\ UserInput
    /\ showForceArrows' = ~showForceArrows
    /\ G_rafPending' = rerunEffect(G_rafPending, G_rafRef).pending
    /\ G_rafRef' = rerunEffect(G_rafPending, G_rafRef).id
    /\ UNCHANGED <<tabValue, evars, hvars, dragTrace, rafRef, rafPending, G_physicsRef, G_simState, earthMass,
                   moonMass, showOrbitalPath, isDraggingRef, G_canvas,
                   runFrames>>

\* onChange of the Orbital Path checkbox
setShowOrbitalPath ==
    /\ tabValue = 1
    /\ UserInput
    /\ showOrbitalPath' = ~showOrbitalPath
    /\ G_rafPending' = rerunEffect(G_rafPending, G_rafRef).pending
    /\ G_rafRef' = rerunEffect(G_rafPending, G_rafRef).id
    /\ UNCHANGED <<tabValue, evars, hvars, dragTrace, rafRef, rafPending, G_physicsRef, G_simState, earthMass,
                   moonMass, showForceArrows, isDraggingRef, G_canvas,
                   runFrames>>

\* The state GravitySimulation mounts with.
GravityInit ==
    /\ G_physicsRef = G_InitialAnimationState
    /\ G_simState = "idle"
    /\ earthMass = "earth"
    /\ moonMass = "0.5"
    /\ showForceArrows = TRUE
    /\ showOrbitalPath = TRUE
    /\ isDraggingRef = FALSE
    /\ G_canvas = G_BlankCanvas
    /\ runFrames = 0
    /\ commands = 0
    /\ dragTrace = [moved |-> FALSE, framedIn |-> "none"]

\* ------------------------------------------- ForceLabSimulation (tabs)

\* handleTabChange: the panel of the old tab unmounts (its state is
\* discarded) and the panel of the new tab mounts with fresh state.
\* TabPanel: the children are rendered only in the panel whose index is the
\* selected value.
TabPanel(value, index) == value = index

\* A tab change that only hides the panel left: both records and whatever
\* loop is running stay as they are.
handleTabChangeHidesPanel ==
    \E newValue \in {0, 1} :
        /\ newValue # tabValue
        /\ tabValue' = newValue
        /\ UNCHANGED <<hvars, gvars, rvars, evars>>

handleTabChange ==
    \E newValue \in {0, 1} :
        /\ newValue # tabValue
        /\ tabValue' = newValue
        /\ physicsRef' = InitialAnimationState
        /\ simState' = "idle"
        /\ massOption' = "medium"
        /\ speedOption' = "medium"
        /\ canvas' = BlankCanvas
        /\ hitTrace' = [from |-> "none", quiet |-> FALSE, frames |-> 0,
                        contacts |-> 0, pauseFrames |-> 0]
        /\ resetTrace' = [from |-> "none", ticked |-> FALSE]
        /\ impactLog' = << >>
        /\ G_physicsRef' = G_InitialAnimationState
        /\ G_simState' = "idle"
        /\ earthMass' = "earth"
        /\ moonMass' = "0.5"
        /\ showForceArrows' = TRUE
        /\ showOrbitalPath' = TRUE
        /\ isDraggingRef' = FALSE
        /\ G_canvas' = G_BlankCanvas
        /\ runFrames' = 0
        /\ commands' = 0
        /\ dragTrace' = [moved |-> FALSE, framedIn |-> "none"]
        /\ unmountTrace' =
             IF ~unmountTrace.on THEN unmountTrace
             ELSE IF tabValue = 0
                  THEN [unmountTrace EXCEPT
                          !.hammer = @ \/ physicsRef # InitialAnimationState]
                  ELSE [unmountTrace EXCEPT
                          !.gravity = @ \/ G_physicsRef # G_InitialAnimationState]
        /\ UNCHANGED surface
        /\ IF newValue = 1
           THEN /\ rafPending' = effectCleanup(rafPending, rafRef)
                /\ rafRef' = 0
                /\ G_rafPending' = requestAnimationFrame(G_rafPending).pending
                /\ G_rafRef' = requestAnimationFrame(G_rafPending).id
           ELSE /\ G_rafPending' = effectCleanup(G_rafPending, G_rafRef)
                /\ G_rafRef' = 0
                /\ rafPending' = requestAnimationFrame(rafPending).pending
                /\ rafRef' = requestAnimationFrame(rafPending).id

\* The hammer tab is selected first: its scenario is mounted and its effect
\* has requested the first frame; the gravity scenario is not mounted.
FirstMount ==
    /\ tabValue = 0
    /\ HammerInit
    /\ GravityInit
    /\ rafPending = requestAnimationFrame({}).pending
    /\ rafRef = requestAnimationFrame({}).id
    /\ G_rafPending = {}
    /\ G_rafRef = 0

NoUnmountTrace == [on |-> FALSE, hammer |-> FALSE, gravity |-> FALSE]

\* The canvas and its 2D context are there, as in any browser that runs the
\* page.
Init ==
    /\ FirstMount
    /\ surface = "ok"
    /\ unmountTrace = NoUnmountTrace

Next ==
    \/ update
    \/ handleHit
    \/ handleReset
    \/ setMassOption
    \/ setSpeedOption
    \/ G_update
    \/ handleCanvasMouseDown
    \/ handleCanvasMouseMove
    \/ handleCanvasMouseUp
    \/ handlePlay
    \/ handlePause
    \/ G_handleReset
    \/ setEarthMass
    \/ setMoonMass
    \/ setShowForceArrows
    \/ setShowOrbitalPath
    \/ handleTabChange

Spec == Init /\ [][Next]_vars

\* The same program with the history of unmounted scenarios switched on.
TabInit ==
    /\ FirstMount
    /\ surface = "ok"
    /\ unmountTrace = [NoUnmountTrace EXCEPT !.on = TRUE]

TabSpec == TabInit /\ [][Next]_vars

\* The same program where the canvas element or its 2D context is missing
\* for every drawScene call.
SurfaceInit ==
    /\ FirstMount
    /\ surface \in Surfaces \ {"ok"}
    /\ unmountTrace = NoUnmountTrace

SurfaceSpec == SurfaceInit /\ [][Next]_vars


\* The hammer scenario while its tab stays selected: the component's own
\* frame loop and handlers.
HammerNext ==
    \/ update
    \/ handleHit
    \/ handleReset
    \/ setMassOption
    \/ setSpeedOption

\* requestAnimationFrame re-arms itself at the end of every update, so the
\* mounted scenario keeps getting frames.
HammerFairSpec == Init /\ [][HammerNext]_vars /\ WF_vars(update)

\* The record after n more Running frames with the initial mass settings.
\* The frames are run in two halves, the second once the first has been
\* evaluated (the test of state does that), to keep the evaluation shallow.
RECURSIVE afterRunning(_, _)
afterRunning(p, n) ==
    IF n = 0 THEN p
    ELSE IF n = 1
         THEN updateRunning(p, G_MASS_MAP["earth"], G_MASS_MAP["0.5"])
         ELSE LET half == afterRunning(p, n \div 2)
              IN  IF half.state = "running"
                  THEN afterRunning(half, n - n \div 2)
                  ELSE half

\* The orbit record PriorFrames frames after Play was pressed on the freshly
\* mounted gravity scenario.
LongRunRecord ==
    afterRunning([G_InitialAnimationState EXCEPT !.state = "running"],
                 PriorFrames)

\* The gravity tab selected, Play pressed and PriorFrames frames run.
TrailInit ==
    /\ tabValue = 1
    /\ HammerInit
    /\ G_physicsRef = LongRunRecord
    /\ G_simState = "running"
    /\ earthMass = "earth"
    /\ moonMass = "0.5"
    /\ showForceArrows = TRUE
    /\ showOrbitalPath = TRUE
    /\ isDraggingRef = FALSE
    /\ G_canvas = G_drawScene(LongRunRecord, TRUE, TRUE)
    /\ runFrames = 0
    /\ commands = 1
    /\ dragTrace = [moved |-> FALSE, framedIn |-> "none"]
    /\ rafPending = {}
    /\ rafRef = 0
    /\ G_rafPending = requestAnimationFrame({}).pending
    /\ G_rafRef = requestAnimationFrame({}).id
    /\ surface = "ok"
    /\ unmountTrace = NoUnmountTrace

\* The frame loop and the buttons and toggles of the gravity scenario.
TrailNext ==
    \/ G_update
    \/ handlePlay
    \/ handlePause
    \/ G_handleReset
    \/ setShowForceArrows
    \/ setShowOrbitalPath

TrailSpec == TrailInit /\ [][TrailNext]_vars

\* ------------------------------------------------------------ claims

\* The number of per-frame steps of size speed that bring the angle from
\* the initial angle to the impact angle or below.
SwingFrames(speed) ==
    CHOOSE n \in 1..20 :
        /\ INITIAL_HAMMER_ANGLE - n * speed <= HAMMER_IMPACT_ANGLE
        /\ INITIAL_HAMMER_ANGLE - (n - 1) * speed > HAMMER_IMPACT_ANGLE

\* A Hit issued in Idle, with no command since.
QuietHitFromIdle == hitTrace.from = "idle" /\ hitTrace.quiet

C1_Progress ==
    QuietHitFromIdle =>
        /\ physicsRef.state \in {"swinging", "contact", "pause"}
        /\ physicsRef.state = "swinging" =>
              /\ hitTrace.frames < SwingFrames(SWING_SPEED_RADS[speedOption])
              /\ hitTrace.contacts = 0
        /\ physicsRef.state \in {"contact", "pause"} =>
              /\ hitTrace.frames = SwingFrames(SWING_SPEED_RADS[speedOption])
              /\ hitTrace.contacts = 1
        /\ physicsRef.state = "pause" =>
              physicsRef.nailDepth = physicsRef.maxDepth

C1_LeavesContact ==
    (QuietHitFromIdle /\ QuietHitFromIdle' /\ physicsRef.state = "contact"
       /\ physicsRef'.state # "contact") =>
        /\ physicsRef'.state = "pause"
        /\ physicsRef.nailDepth >= physicsRef.maxDepth
        /\ physicsRef'.nailDepth = physicsRef'.maxDepth

\* C1: after one Hit in Idle and no further command, the swing lasts
\* exactly the number of frames the selected speed needs to bring the
\* angle from the initial to the impact angle, Contact is entered once,
\* Contact is left only to Pause and only once nailDepth has reached
\* maxDepth, and with frames ticking Pause is reached.
C1_HitReachesContactThenPause ==
    /\ []C1_Progress
    /\ [][C1_LeavesContact]_vars
    /\ (QuietHitFromIdle ~> (physicsRef.state = "pause" \/ ~hitTrace.quiet))

C1_Witness ==
    /\ QuietHitFromIdle
    /\ physicsRef.state = "pause"
    /\ hitTrace.contacts = 1
    /\ physicsRef.maxDepth > 0
    /\ physicsRef.nailDepth = physicsRef.maxDepth

\* C2: the primary button pressed in Pause (the Up command), with frames
\* ticking and no further command, leads back to Idle with nailDepth 0 and
\* hammerAngle at its initial value.
C2_UpFromPauseReturnsToIdle ==
    (hitTrace.from = "pause" /\ hitTrace.quiet)
        ~> \/ ~hitTrace.quiet
           \/ /\ physicsRef.state = "idle"
              /\ physicsRef.nailDepth = 0
              /\ physicsRef.hammerAngle = INITIAL_HAMMER_ANGLE

ArrowLength(a) == Abs(a.toX - a.fromX) + Abs(a.toY - a.fromY)

C3_Opposite ==
    canvas.arrows # << >> =>
        LET n == canvas.arrows[1]
            h == canvas.arrows[2]
        IN  /\ Len(canvas.arrows) = 2
            /\ n.label = "F_N" /\ h.label = "F_H"
            /\ n.fromX = h.fromX /\ n.fromY = h.fromY
            /\ n.toX - n.fromX = -(h.toX - h.fromX)
            /\ n.toY - n.fromY = -(h.toY - h.fromY)
            /\ ArrowLength(n) = ArrowLength(h)

C3_FrameLength ==
    (update /\ canvas'.arrows # << >>) =>
        \A i \in 1..Len(canvas'.arrows) :
            ArrowLength(canvas'.arrows[i]) = physicsRef'.forceMagnitude

\* C3: whenever the hammer scenario has force arrows on the canvas, the
\* two arrows start at the same contact point, point in exactly opposite
\* directions and have the same length, and in the frame that draws them
\* that length is the record's forceMagnitude.
C3_HammerForceSymmetry == []C3_Opposite /\ [][C3_FrameLength]_vars

C3_Witness ==
    /\ Len(canvas.arrows) = 2
    /\ ArrowLength(canvas.arrows[1]) = 50 * Unit
    /\ physicsRef.state = "pause"

\* The two arrows of one gravity frame are a symmetric pair of length len:
\* F_E starts at the Moon (mx, my), F_M at the Earth, with the same length
\* and opposite unit vectors and shafts.
SymmetricPair(arrows, mx, my, len) ==
    /\ Len(arrows) = 2
    /\ LET e == arrows[1]
           m == arrows[2]
       IN  /\ e.label = "F_E" /\ m.label = "F_M"
           /\ e.fromX = mx /\ e.fromY = my
           /\ m.fromX = EARTH_X * Unit /\ m.fromY = EARTH_Y * Unit
           /\ e.length = len /\ m.length = len
           /\ e.dir.x = -m.dir.x /\ e.dir.y = -m.dir.y
           /\ e.toX - e.fromX = -(m.toX - m.fromX)
           /\ e.toY - e.fromY = -(m.toY - m.fromY)

C4_Drawn ==
    G_canvas.arrows # << >> =>
        SymmetricPair(G_canvas.arrows, G_canvas.moonX, G_canvas.moonY,
                      G_canvas.arrows[1].length)

C4_FrameLength ==
    (G_update /\ G_canvas'.arrows # << >>) =>
        SymmetricPair(G_canvas'.arrows, G_physicsRef'.moonX,
                      G_physicsRef'.moonY, G_physicsRef'.forceMagnitude)

\* C4: whenever the gravity scenario has force arrows on the canvas, the
\* Earth-on-Moon and Moon-on-Earth arrows have the same length and exactly
\* opposite directions, in the frame that draws them that length is the
\* record's forceMagnitude; this holds in every state reached by Play, Pause,
\* Reset, dragging and any of the mass settings.
C4_GravityForceSymmetry ==
    /\ []C4_Drawn
    /\ [][C4_FrameLength]_vars

C4_Witness ==
    /\ Len(G_canvas.arrows) = 2
    /\ earthMass = "2" /\ moonMass = "0.5"
    /\ G_physicsRef.moonDistance = MIN_DISTANCE * Unit
    /\ G_physicsRef.state = "running"
    /\ G_physicsRef.forceMagnitude > 0
    /\ G_canvas.arrows[1].length = G_physicsRef.forceMagnitude
    /\ G_canvas.arrows[2].length = G_physicsRef.forceMagnitude

\* The steps of the documented cycle.
CycleSteps ==
    { <<"idle", "swinging">>, <<"swinging", "contact">>,
      <<"contact", "pause">>, <<"pause", "resetting">>,
      <<"resetting", "idle">> }

\* C5: every change of the hammer phase is one step of the cycle
\* Idle -> Swinging -> Contact -> Pause -> Resetting -> Idle, or a full
\* reset to Idle; Swinging is entered only from Idle.  (Leaving the tab
\* unmounts the scenario and is not a phase change of it.)
C5_PhaseOrder ==
    [][physicsRef'.state # physicsRef.state =>
          \/ <<physicsRef.state, physicsRef'.state>> \in CycleSteps
          \/ (handleReset /\ physicsRef'.state = "idle")
          \/ handleTabChange]_vars

\* C6: after a full reset, from whatever phase and field values, the
\* record is at its initial values with phase Idle, and stays there over
\* frame ticks and option changes until the next Hit.
C6_FullResetRestoresInitial ==
    /\ resetTrace.from # "none" =>
          /\ physicsRef = InitialAnimationState
          /\ simState = "idle"
    /\ \A ph \in SimulationState :
          resetPhysics([physicsRef EXCEPT !.state = ph]) = InitialAnimationState

C6_Witness ==
    /\ resetTrace.from = "pause"
    /\ resetTrace.ticked
    /\ physicsRef.state = "idle"

\* C7: in every frame of a swing (phase Swinging or Contact) nailDepth
\* does not decrease and does not exceed maxDepth.
C7_NailDepthMonotoneAndClamped ==
    [][(update /\ physicsRef.state \in {"swinging", "contact"}) =>
          /\ physicsRef'.nailDepth >= physicsRef.nailDepth
          /\ physicsRef'.nailDepth <= physicsRef'.maxDepth]_vars

\* C8: hammerAngle always lies between the impact angle and the initial
\* raised angle.
C8_HammerAngleBounds ==
    /\ HAMMER_IMPACT_ANGLE <= physicsRef.hammerAngle
    /\ physicsRef.hammerAngle <= INITIAL_HAMMER_ANGLE

\* The depth one impact adds for the selections sel.
ImpactDepth(sel) ==
    calculatePenetrationDepth(
        calculateImpulse(MASS_MAP[sel.mass], SWING_SPEED_RADS[sel.speed]))

RECURSIVE SumDepths(_)
SumDepths(log) ==
    IF log = << >> THEN 0
    ELSE ImpactDepth(log[Len(log)]) + SumDepths(SubSeq(log, 1, Len(log) - 1))

IsImpact == physicsRef.state = "swinging" /\ physicsRef'.state = "contact"

C9_Sum == physicsRef.maxDepth = SumDepths(impactLog)

C9_Step ==
    /\ IsImpact =>
          physicsRef'.maxDepth = physicsRef.maxDepth
              + ImpactDepth([mass |-> massOption, speed |-> speedOption])
    /\ (~IsImpact /\ ~handleReset /\ ~handleTabChange) =>
          physicsRef'.maxDepth = physicsRef.maxDepth
    /\ (~handleReset /\ ~handleTabChange) =>
          physicsRef'.maxDepth >= physicsRef.maxDepth

\* C9: each Swinging-to-Contact transition adds to maxDepth the
\* penetration depth of the impulse of the selected mass and swing speed,
\* no other step of the mounted scenario but a full reset changes maxDepth,
\* and maxDepth is the sum of the increments of the impacts since the last
\* full reset.
C9_CumulativeMaxDepth == []C9_Sum /\ [][C9_Step]_vars

C9_Witness ==
    /\ Len(impactLog) = 2
    /\ impactLog[1] # impactLog[2]
    /\ physicsRef.maxDepth = ImpactDepth(impactLog[1]) + ImpactDepth(impactLog[2])
    /\ physicsRef.state = "pause"

C10_Held ==
    physicsRef.state \in {"contact", "pause"} =>
        /\ impactLog # << >>
        /\ physicsRef.forceMagnitude =
              calculateForceMagnitude(
                  calculateImpulse(MASS_MAP[impactLog[Len(impactLog)].mass],
                      SWING_SPEED_RADS[impactLog[Len(impactLog)].speed]))

C10_Step ==
    physicsRef'.forceMagnitude # physicsRef.forceMagnitude =>
        IsImpact \/ handleReset \/ handleTabChange

\* C10: forceMagnitude of the mounted hammer scenario changes only at an
\* impact and at a full reset, and throughout Contact and Pause it is the
\* value computed at the last impact.
C10_ForceMagnitudeHeld == []C10_Held /\ [][C10_Step]_vars

C10_Witness ==
    /\ physicsRef.state = "pause"
    /\ physicsRef.forceMagnitude = 50 * Unit
    /\ canvas.arrows # << >>
    /\ Len(impactLog) = 2

C11_Label == simState = "pause" => primaryButtonLabel(simState) = "UP"

C11_Step ==
    /\ (handleHit /\ physicsRef.state = "pause") =>
          physicsRef'.state = "resetting"
    /\ (physicsRef.state = "pause" /\ physicsRef'.state # "pause") =>
          handleHit \/ handleReset \/ handleTabChange
    /\ (physicsRef.state # "resetting" /\ physicsRef'.state = "resetting") =>
          handleHit /\ physicsRef.state = "pause"

\* C11: in Pause the primary button is the UP command; pressing it moves
\* the phase from Pause to Resetting, Pause is left only by that press (or
\* a full reset or unmount), and Resetting is entered only by that press.
C11_UpFromPause == []C11_Label /\ [][C11_Step]_vars

\* clamp(d, minDistance, maxDistance), case by case
Clamp(d) ==
    IF d < MIN_DISTANCE * Unit THEN MIN_DISTANCE * Unit
    ELSE IF d > MAX_DISTANCE * Unit THEN MAX_DISTANCE * Unit
    ELSE d

\* Raw distances around both limits, in Units.
RawDistances ==
    {0, 1, MIN_DISTANCE * Unit - 1, MIN_DISTANCE * Unit, MIN_DISTANCE * Unit + 1,
     INITIAL_DISTANCE * Unit, MAX_DISTANCE * Unit - 1, MAX_DISTANCE * Unit,
     MAX_DISTANCE * Unit + 1, 2 * MAX_DISTANCE * Unit}

C12_Formula == \A d \in RawDistances : constrainDistance(d) = Clamp(d)

C12_Move ==
    (handleCanvasMouseMove /\ isDraggingRef) =>
        \E pt \in PointerMoves :
            /\ G_physicsRef'.moonAngle = pointerPolar[pt].angle
            /\ G_physicsRef'.moonDistance = Clamp(pointerPolar[pt].distance)

\* C12: a pointer move during an active drag at raw distance d from the
\* Earth's centre leaves moonDistance = max(150, min(400, d)).
C12_OrbitDistanceClamp == []C12_Formula /\ [][C12_Move]_vars

C12_Witness ==
    /\ isDraggingRef
    /\ pointerPolar[<<0, 0>>].distance > MAX_DISTANCE * Unit
    /\ G_physicsRef.moonAngle = pointerPolar[<<0, 0>>].angle
    /\ G_physicsRef.moonDistance = MAX_DISTANCE * Unit

C13_Range ==
    /\ MIN_DISTANCE * Unit <= G_physicsRef.moonDistance
    /\ G_physicsRef.moonDistance <= MAX_DISTANCE * Unit

C13_Step ==
    /\ G_physicsRef'.moonDistance # G_physicsRef.moonDistance =>
          \/ handleCanvasMouseMove /\ isDraggingRef
          \/ G_handleReset
          \/ handleTabChange
    /\ G_update => G_physicsRef'.moonDistance = G_physicsRef.moonDistance

\* C13: moonDistance always lies in [minDistance, maxDistance]; only a drag
\* move or Reset (or a remount) changes it, a frame tick never does.
C13_OrbitDistanceInvariant == []C13_Range /\ [][C13_Step]_vars

C13_Witness ==
    /\ G_physicsRef.moonDistance = MIN_DISTANCE * Unit
    /\ G_physicsRef.state = "running"
    /\ runFrames = MaxRunFrames

\* C14: the trail never holds more than the cap of 500 points (and so holds
\* exactly the cap once more than 500 Running frames have passed since the
\* last Reset).
C14_PathTrailCap == Len(G_physicsRef.pathPoints) <= TrailCap

C15_Reset ==
    G_handleReset =>
        /\ G_physicsRef' = G_InitialAnimationState
        /\ G_simState' = "idle"

C15_Kept ==
    (G_physicsRef = G_InitialAnimationState /\ ~handlePlay
       /\ ~(handleCanvasMouseMove /\ isDraggingRef)) =>
        G_physicsRef' = G_InitialAnimationState

C15_AnyPhase ==
    \A ph \in GravitySimState :
        LET p == G_resetPhysics([G_physicsRef EXCEPT !.state = ph])
        IN  /\ p.state = "idle"
            /\ p.moonDistance = INITIAL_DISTANCE * Unit
            /\ p.moonAngle = 0
            /\ p.moonVelocity = 0
            /\ p.pathPoints = << >>
            /\ p.moonX = (EARTH_X + INITIAL_DISTANCE) * Unit
            /\ p.moonY = EARTH_Y * Unit

\* C15: Reset, from any phase and any field values, leaves the record at
\* phase Idle with the initial distance, angle 0, velocity 0, an empty trail
\* and the moon at its initial position, and every step but Play and a drag
\* move (frame ticks in particular) keeps it there.
C15_GravityReset == []C15_AnyPhase /\ [][C15_Reset /\ C15_Kept]_vars

\* Reset has acted on a record with a trail of at least two points (the
\* canvas still shows the trail of the last Running frame).
C15_Witness ==
    /\ G_physicsRef = G_InitialAnimationState
    /\ G_simState = "idle"
    /\ G_canvas.pathLength > 1
    /\ G_canvas.moonX # G_physicsRef.moonX

C16_Step ==
    (G_update /\ G_physicsRef.state \in {"idle", "paused"}) =>
        /\ G_physicsRef' = G_physicsRef
        /\ G_canvas' = G_drawScene(G_physicsRef, showForceArrows,
                                   showOrbitalPath)
        /\ G_rafPending' # {}
        /\ G_rafRef' \in G_rafPending'

\* C16: a frame tick in Idle or Paused changes no field of the orbit
\* record, redraws the scene from it and requests the next frame.
C16_IdleFrameNoMutation == [][C16_Step]_vars

\* A frame was drawn in Paused: the canvas shows the moon where a drag put
\* it after the only trail point was recorded.
C16_Witness ==
    /\ G_physicsRef.state = "paused"
    /\ Len(G_physicsRef.pathPoints) = 1
    /\ G_physicsRef.moonDistance = MIN_DISTANCE * Unit
    /\ G_physicsRef.pathPoints[1].x > (EARTH_X + MIN_DISTANCE + 50) * Unit
    /\ G_canvas.moonX = G_physicsRef.moonX
    /\ G_canvas.distanceLabel = MIN_DISTANCE

\* The record's force and velocity are the formulas at its distance and the
\* selected masses.
Recomputed(p) ==
    /\ p.forceMagnitude =
          calculateGravitationalForce(G_MASS_MAP[earthMass],
                                      G_MASS_MAP[moonMass], p.moonDistance)
    /\ p.moonVelocity =
          calculateOrbitalVelocity(G_MASS_MAP[earthMass], p.moonDistance)
              \div 10

\* C17 as stated: the frame after a drag move that changed moonDistance
\* leaves forceMagnitude and moonVelocity at the formulas' values for the
\* new distance and the selected masses.
C17_RecomputeAfterDrag ==
    [][(G_update /\ dragTrace.moved) => Recomputed(G_physicsRef')]_vars

\* C17 amended: the same, for a frame in the Running phase.
C17_RecomputeAfterDragRunning ==
    [][(G_update /\ dragTrace.moved /\ G_physicsRef.state = "running") =>
          /\ Recomputed(G_physicsRef')
          /\ G_physicsRef'.moonDistance = G_physicsRef.moonDistance]_vars

C17_Witness ==
    /\ G_physicsRef.state = "running"
    /\ dragTrace.framedIn = "running"
    /\ G_physicsRef.moonDistance = MIN_DISTANCE * Unit
    /\ G_canvas.distanceLabel = MIN_DISTANCE
    /\ Len(G_physicsRef.pathPoints) = 1
    /\ G_physicsRef.forceMagnitude > 0
    /\ Recomputed(G_physicsRef)

C18_Single ==
    /\ Cardinality(rafPending) <= 1
    /\ Cardinality(G_rafPending) <= 1
    /\ tabValue = 0 => rafPending = {rafRef} /\ G_rafPending = {}
    /\ tabValue = 1 => G_rafPending = {G_rafRef} /\ rafPending = {}

C18_Step ==
    /\ update => tabValue = 0
    /\ G_update => tabValue = 1

\* C18: each mounted scenario has exactly one pending frame callback (the
\* one rafRef holds), also after the update callback is re-created by a
\* mass, speed or toggle change; an unmounted scenario has none, and no
\* update of an unmounted scenario runs.
C18_SingleAnimationLoop == []C18_Single /\ [][C18_Step]_vars

\* The hammer scenario was unmounted and the gravity scenario mounted, its
\* update re-created by a mass change and a toggle, and frames have run:
\* one callback is pending, for the gravity scenario.
C18_Witness ==
    /\ tabValue = 1
    /\ G_rafPending = {G_rafRef}
    /\ rafPending = {}
    /\ earthMass # "earth"
    /\ ~showForceArrows
    /\ G_physicsRef.state = "running"
    /\ runFrames > 0

\* C19: a frame draws the force arrows if and only if the phase it draws
\* is Contact or Pause.
C19_ArrowsInContactAndPause ==
    [][update =>
          (canvas'.arrows # << >>
              <=> physicsRef'.state \in {"contact", "pause"})]_vars

C20_Frame ==
    update => (canvas'.arrows # << >> <=> physicsRef'.state = "pause")

C20_Legend ==
    /\ LegendOverlay(simState) <=> simState = "pause"
    /\ simState = physicsRef.state

C21_Ordered(a, b) ==
    a.impulse < b.impulse => a.depth < b.depth /\ a.force < b.force

\* C21: of two impacts with different impulse, the one with the larger
\* impulse has the larger maxDepth increment and the longer force arrow.
C21_VisualsFollowImpulse ==
    \A i, j \in 1..Len(impactLog) : C21_Ordered(impactLog[i], impactLog[j])

\* C22: the impulse computed at an impact is the product of the documented
\* mass (1, 5, 10) and the documented velocity (1, 5, 10) of the selections.
C22_DocumentedImpulse ==
    \A i \in 1..Len(impactLog) :
        impactLog[i].impulse =
            calculateImpulse(MASS_MAP[impactLog[i].mass],
                             SPEED_MAP[impactLog[i].speed] * Unit)

\* One frame that turns Swinging into Contact, from the record p with the
\* hammer at the impact angle, under the given selections; the increment
\* of maxDepth in that frame.
C23_Increment(p, massKey, speedKey) ==
    LET before == [p EXCEPT !.state = "swinging",
                            !.hammerAngle = HAMMER_IMPACT_ANGLE]
        after == updatePhysics(before, MASS_MAP[massKey],
                               SWING_SPEED_RADS[speedKey])
    IN  after.maxDepth - before.maxDepth

C23_Logged ==
    \A i, j \in 1..Len(impactLog) :
        (/\ impactLog[i].mass = "heavy" /\ impactLog[i].speed = "fast"
         /\ impactLog[j].mass = "light" /\ impactLog[j].speed = "slow")
            => impactLog[i].depth >= impactLog[j].depth

\* C23: from the same maxDepth, the impact of a Hit with heavy mass and
\* fast speed adds at least as much to maxDepth as the impact of a Hit with
\* light mass and slow speed.
C23_HeavyFastAtLeastLightSlow ==
    /\ C23_Logged
    /\ C23_Increment(physicsRef, "heavy", "fast")
          >= C23_Increment(physicsRef, "light", "slow")

C23_Witness ==
    /\ Len(impactLog) = 2
    /\ impactLog[1].mass = "heavy" /\ impactLog[1].speed = "fast"
    /\ impactLog[2].mass = "light" /\ impactLog[2].speed = "slow"
    /\ impactLog[1].depth > impactLog[2].depth
    /\ physicsRef.maxDepth = impactLog[1].depth + impactLog[2].depth

\* The record p as it would stand in the last frame of a Resetting phase:
\* the hammer one step short of the initial angle.
C24_LastResettingFrame(p) ==
    [p EXCEPT !.state = "resetting",
              !.hammerAngle = INITIAL_HAMMER_ANGLE - 1]

HammerFresh ==
    /\ physicsRef = InitialAnimationState
    /\ simState = "idle"
    /\ massOption = "medium" /\ speedOption = "medium"
    /\ canvas = BlankCanvas
    /\ impactLog = << >>

GravityFresh ==
    /\ G_physicsRef = G_InitialAnimationState
    /\ G_simState = "idle"
    /\ earthMass = "earth" /\ moonMass = "0.5"
    /\ showForceArrows /\ showOrbitalPath
    /\ ~isDraggingRef
    /\ G_canvas = G_BlankCanvas

\* An unmounted scenario has no loop and no record other than the one its
\* next mount creates.
C25_OneMounted ==
    /\ Cardinality({i \in {0, 1} : TabPanel(tabValue, i)}) <= 1
    /\ ~TabPanel(tabValue, 0) => HammerFresh /\ rafPending = {} /\ rafRef = 0
    /\ ~TabPanel(tabValue, 1) => GravityFresh /\ G_rafPending = {} /\ G_rafRef = 0

C25_Step ==
    tabValue' # tabValue =>
        /\ HammerFresh' /\ GravityFresh'
        /\ TabPanel(tabValue', 0) =>
              Cardinality(rafPending') = 1 /\ G_rafPending' = {}
        /\ TabPanel(tabValue', 1) =>
              Cardinality(G_rafPending') = 1 /\ rafPending' = {}

\* C25: at most one scenario is mounted; a tab change destroys the record
\* and the loop of the scenario it leaves and mounts the other one with a
\* fresh record, one loop and default controls, so nothing of an earlier
\* mount (phase, depth, angle, distance, trail) is resumed.
C25_FreshMountOnTabChange == []C25_OneMounted /\ [][C25_Step]_vars

C25_Witness ==
    /\ tabValue = 0
    /\ unmountTrace.hammer /\ unmountTrace.gravity
    /\ HammerFresh
    /\ Cardinality(rafPending) = 1
    /\ G_rafPending = {}

\* ---------------------------------------------------------------------
\* The formulas of the library.

\* Impulses from 0 to 200, on both sides of the points where the depth
\* reaches its cap (75) and the arrow leaves its floor (33.33) and reaches
\* its cap (100), with the impulses of the nine selections among them.
ImpulseSamples ==
    {0, 1, 500, 5000, 15000, 333333, 333334, 500000, 749999, 750000,
     750001, 999999, 1000000, 1000001, 2000000}
    \cup {calculateImpulse(MASS_MAP[m], SWING_SPEED_RADS[s]) :
              m \in MassOptions, s \in SpeedOptions}

C26_Values(i) ==
    /\ calculatePenetrationDepth(i) =
          (IF (i * 8) \div 10 < 60 * Unit THEN (i * 8) \div 10 ELSE 60 * Unit)
    /\ calculatePenetrationDepth(i) <= 60 * Unit
    /\ calculateForceMagnitude(i) =
          (IF (i * 15) \div 10 < 50 * Unit THEN 50 * Unit
           ELSE IF (i * 15) \div 10 > 150 * Unit THEN 150 * Unit
           ELSE (i * 15) \div 10)
    /\ calculateForceMagnitude(i) >= 50 * Unit
    /\ calculateForceMagnitude(i) <= 150 * Unit

C26_Monotone(i, j) ==
    i <= j =>
        /\ calculatePenetrationDepth(i) <= calculatePenetrationDepth(j)
        /\ calculateForceMagnitude(i) <= calculateForceMagnitude(j)

C26_Table ==
    /\ \A i \in ImpulseSamples : C26_Values(i)
    /\ \A i, j \in ImpulseSamples : C26_Monotone(i, j)

\* C26: penetrationDepth(i) = min(0.8 i, 60) never exceeds 60,
\* forceArrowLength(i) = clamp(1.5 i, 50, 150) lies in [50, 150], and both
\* are non-decreasing in the impulse i >= 0; the values an impact stores
\* are these functions of its impulse.
C26_DepthAndArrowBounded ==
    /\ C26_Table
    /\ \A k \in 1..Len(impactLog) :
          /\ impactLog[k].impulse \in ImpulseSamples
          /\ impactLog[k].depth = calculatePenetrationDepth(impactLog[k].impulse)
          /\ impactLog[k].force = calculateForceMagnitude(impactLog[k].impulse)

C26_Witness ==
    /\ Len(impactLog) = 2
    /\ impactLog[1].impulse < impactLog[2].impulse
    /\ impactLog[1].depth < impactLog[2].depth
    /\ impactLog[1].force = impactLog[2].force
    /\ calculatePenetrationDepth(1000000) = 60 * Unit
    /\ calculateForceMagnitude(1000001) = 150 * Unit

\* Distances in whole pixels: none and negative ones, the limits of the
\* orbit and their neighbours, and distances outside the orbit's range
\* (up to 460, whose square in hundredths still fits the integers).
NonPositiveDistances == {-280 * Unit, -1 * Unit, 0}

PositiveDistances ==
    {d * Unit : d \in {1, 2, 10, 100, 149, 150, 151, 279, 280, 281, 399,
                       400, 401, 430, 460}}

MassValues == {G_MASS_MAP[k] : k \in MassKeys}

C27_Zero(m1, m2) ==
    \A r \in NonPositiveDistances :
        /\ calculateGravitationalForce(m1, m2, r) = 0
        /\ Gravity_calculateForceMagnitude(GRAVITATIONAL_CONSTANT, m1, m2, r) = 0

C27_Decreasing(m1, m2) ==
    \A r, s \in PositiveDistances :
        /\ calculateGravitationalForce(m1, m2, r) > 0
        /\ Gravity_calculateForceMagnitude(GRAVITATIONAL_CONSTANT, m1, m2, r) > 0
        /\ r < s =>
              /\ calculateGravitationalForce(m1, m2, r)
                    > calculateGravitationalForce(m1, m2, s)
              /\ Gravity_calculateForceMagnitude(GRAVITATIONAL_CONSTANT, m1, m2, r)
                    > Gravity_calculateForceMagnitude(GRAVITATIONAL_CONSTANT,
                                                      m1, m2, s)

C27_Table ==
    \A m1, m2 \in MassValues : C27_Zero(m1, m2) /\ C27_Decreasing(m1, m2)

\* The force a Running frame stores is the controller's function of the
\* masses and the distance of that frame, positive, and ordered against the
\* force at the initial distance as the distances are.
C27_Frame ==
    (G_update /\ G_physicsRef.state = "running") =>
        LET e == G_MASS_MAP[earthMass]
            m == G_MASS_MAP[moonMass]
            r == G_physicsRef.moonDistance
            atStart == calculateGravitationalForce(e, m, INITIAL_DISTANCE * Unit)
        IN  /\ G_physicsRef'.forceMagnitude = calculateGravitationalForce(e, m, r)
            /\ G_physicsRef'.forceMagnitude =
                  Gravity_calculateForceMagnitude(GRAVITATIONAL_CONSTANT, e, m, r)
            /\ G_physicsRef'.forceMagnitude > 0
            /\ r < INITIAL_DISTANCE * Unit => G_physicsRef'.forceMagnitude > atStart
            /\ r > INITIAL_DISTANCE * Unit => G_physicsRef'.forceMagnitude < atStart

\* C27: the gravitational force, in the library and in the controller's
\* copy, is 0 for a distance r <= 0, and for r > 0 it is positive and
\* strictly decreasing in r.
C27_ForceInverseSquare == []C27_Table /\ [][C27_Frame]_vars

C27_Witness ==
    /\ G_physicsRef.state = "running"
    /\ runFrames > 0
    /\ G_physicsRef.moonDistance = MIN_DISTANCE * Unit
    /\ G_physicsRef.forceMagnitude =
          calculateGravitationalForce(G_MASS_MAP[earthMass], G_MASS_MAP[moonMass],
                                      MIN_DISTANCE * Unit)
    /\ G_physicsRef.forceMagnitude >
          calculateGravitationalForce(G_MASS_MAP[earthMass], G_MASS_MAP[moonMass],
                                      INITIAL_DISTANCE * Unit)

\* Masses and velocities of either sign: the documented values, the swing
\* rates the frame loop passes (in Units), and their negatives.
MassSamples == {-10, -5, -1, 0, 1, 5, 10}

VelocitySamples ==
    {-10 * Unit, -1500, -500, 0, 500, 1000, 1500, Unit, 5 * Unit, 10 * Unit}

C28_Product(m, v) ==
    /\ calculateImpulse(m, v) >= 0
    /\ calculateImpulse(m, v) = (IF m * v < 0 THEN 0 - m * v ELSE m * v)
    /\ (m > 0 /\ v > 0) => calculateImpulse(m, v) = m * v

C28_Increasing(m, v, n, w) ==
    (m > 0 /\ v > 0 /\ n > 0 /\ w > 0) =>
        /\ m < n => calculateImpulse(m, v) < calculateImpulse(n, v)
        /\ v < w => calculateImpulse(m, v) < calculateImpulse(m, w)

C28_Table ==
    /\ \A m \in MassSamples, v \in VelocitySamples : C28_Product(m, v)
    /\ \A m, n \in MassSamples, v, w \in VelocitySamples :
          C28_Increasing(m, v, n, w)

\* C28: impulse(m, v) is |m v|, never negative; for m > 0 and v > 0 it is
\* m v and strictly increasing in each argument. The impulse of every
\* impact is the product of the mass and the swing rate passed to it.
C28_ImpulseIsAbsoluteProduct ==
    /\ C28_Table
    /\ \A k \in 1..Len(impactLog) :
          /\ impactLog[k].impulse =
                MASS_MAP[impactLog[k].mass] * SWING_SPEED_RADS[impactLog[k].speed]
          /\ impactLog[k].impulse > 0

C28_Witness ==
    /\ Len(impactLog) = 2
    /\ impactLog[1].mass = impactLog[2].mass
    /\ impactLog[1].speed = "slow" /\ impactLog[2].speed = "fast"
    /\ impactLog[1].impulse < impactLog[2].impulse
    /\ calculateImpulse(-5, 1000) = 5000

\* ---------------------------------------------------------------------
\* The orbit.

\* Whole-pixel distances of the permitted range: its limits, the initial
\* distance, their neighbours and points between.
OrbitDistances ==
    {d * Unit : d \in {MIN_DISTANCE, MIN_DISTANCE + 1, 200, INITIAL_DISTANCE - 1,
                       INITIAL_DISTANCE, INITIAL_DISTANCE + 1, 300,
                       MAX_DISTANCE - 1, MAX_DISTANCE}}

\* The record after one Running frame at distance d from angle 0: its
\* moonAngle is the angle increment of the frame.
C29_FrameAt(d, earthMassVal) ==
    updateRunning([G_InitialAnimationState EXCEPT !.state = "running",
                                                  !.moonDistance = d,
                                                  !.moonAngle = 0],
                  earthMassVal, G_MASS_MAP["earth"])

C29_Table ==
    \A e \in MassValues : \A r, s \in OrbitDistances :
        r < s =>
            /\ C29_FrameAt(r, e).moonVelocity > C29_FrameAt(s, e).moonVelocity
            /\ C29_FrameAt(r, e).moonAngle > C29_FrameAt(s, e).moonAngle

\* A Running frame of the program stores the velocity of its distance and
\* advances the angle by the increment of its distance, both ordered
\* against the values at the initial distance as the distances are.
C29_Frame ==
    (G_update /\ G_physicsRef.state = "running") =>
        LET e == G_MASS_MAP[earthMass]
            r == G_physicsRef.moonDistance
            here == C29_FrameAt(r, e)
            atStart == C29_FrameAt(INITIAL_DISTANCE * Unit, e)
            step == G_physicsRef'.moonAngle - G_physicsRef.moonAngle
        IN  /\ G_physicsRef'.moonVelocity = here.moonVelocity
            /\ step = here.moonAngle
            /\ r < INITIAL_DISTANCE * Unit =>
                  /\ G_physicsRef'.moonVelocity > atStart.moonVelocity
                  /\ step > atStart.moonAngle
            /\ r > INITIAL_DISTANCE * Unit =>
                  /\ G_physicsRef'.moonVelocity < atStart.moonVelocity
                  /\ step < atStart.moonAngle

\* C29: for a fixed Earth mass, the moonVelocity and the angle increment of
\* a Running frame are strictly larger at a smaller moonDistance, over the
\* permitted range of distances.
C29_FasterWhenCloser == []C29_Table /\ [][C29_Frame]_vars

C29_Witness ==
    /\ G_physicsRef.state = "running"
    /\ runFrames = 1
    /\ G_physicsRef.moonDistance = MIN_DISTANCE * Unit
    /\ G_physicsRef.moonAngle =
          C29_FrameAt(MIN_DISTANCE * Unit, G_MASS_MAP[earthMass]).moonAngle
    /\ G_physicsRef.moonVelocity >
          C29_FrameAt(INITIAL_DISTANCE * Unit, G_MASS_MAP[earthMass]).moonVelocity
    /\ G_physicsRef.moonAngle >
          C29_FrameAt(INITIAL_DISTANCE * Unit, G_MASS_MAP[earthMass]).moonAngle

\* ---------------------------------------------------------------------
\* Frames without a rendering surface.

C30_HammerFrame ==
    (update /\ surface # "ok") =>
        /\ canvas' = canvas
        /\ physicsRef' = updatePhysics(physicsRef, MASS_MAP[massOption],
                                       SWING_SPEED_RADS[speedOption])
        /\ Cardinality(rafPending') = 1
        /\ rafRef' \in rafPending'

C30_GravityFrame ==
    (G_update /\ surface # "ok") =>
        /\ G_canvas' = G_canvas
        /\ G_physicsRef' = G_updatePhysics(G_physicsRef, G_MASS_MAP[earthMass],
                                           G_MASS_MAP[moonMass])
        /\ Cardinality(G_rafPending') = 1
        /\ G_rafRef' \in G_rafPending'

\* The loop of the mounted scenario always has its next frame requested.
C30_LoopAlive ==
    /\ TabPanel(tabValue, 0) => rafPending # {} /\ rafRef \in rafPending
    /\ TabPanel(tabValue, 1) => G_rafPending # {} /\ G_rafRef \in G_rafPending

\* C30: in a frame where the canvas or its 2D context is missing, nothing
\* is drawn and the frame still completes: the physics update of the frame
\* is applied and the next frame is requested, so the loop goes on.
C30_MissingSurfaceSkipsDraw ==
    /\ []C30_LoopAlive
    /\ [][C30_HammerFrame /\ C30_GravityFrame]_vars

C30_Witness ==
    /\ surface = "noContext"
    /\ physicsRef.state = "pause"
    /\ physicsRef.maxDepth > 0
    /\ hitTrace.frames > 0
    /\ canvas = BlankCanvas
    /\ Cardinality(rafPending) = 1

\* ---------------------------------------------------------------------
\* Frame ticks and commands, phase by phase.

C31_Step ==
    /\ (update /\ physicsRef.state = "pause") =>
          /\ physicsRef' = physicsRef
          /\ simState' = simState
    /\ (physicsRef.state = "pause" /\ physicsRef'.state # "pause") =>
          handleHit \/ handleReset \/ handleTabChange

\* C31: a frame tick in Pause changes no field of the hammer record, and
\* the record leaves Pause only by a user command (Hit, Reset or a tab
\* change), however many frames pass.
C31_PauseStable == [][C31_Step]_vars

C31_Witness ==
    /\ physicsRef.state = "pause"
    /\ hitTrace.pauseFrames = MaxPauseFrames
    /\ physicsRef.maxDepth > 0
    /\ physicsRef.forceMagnitude = 50 * Unit

\* The record p at the start of a Resetting phase: the hammer still down
\* at the impact angle, the nail where the last frames left it.
C32_ResettingFrom(p) ==
    [p EXCEPT !.state = "resetting", !.hammerAngle = HAMMER_IMPACT_ANGLE]

C33_Step ==
    (G_update /\ G_physicsRef.state = "running") =>
        LET old == G_physicsRef
            new == G_physicsRef'
            velocity == calculateOrbitalVelocity(G_MASS_MAP[earthMass],
                                                 old.moonDistance) \div 10
            kept == IF Len(old.pathPoints) > TrailCap THEN Tail(old.pathPoints)
                                                      ELSE old.pathPoints
        IN  /\ new.moonVelocity = velocity
            /\ new.moonAngle =
                  old.moonAngle + (velocity * Unit) \div (old.moonDistance \div 100)
            /\ new.moonAngle > old.moonAngle
            /\ [x |-> new.moonX, y |-> new.moonY] =
                  moonPosition(old.moonDistance, new.moonAngle)
            /\ new.pathPoints = Append(kept, [x |-> new.moonX, y |-> new.moonY])
            /\ new.moonDistance = old.moonDistance
            /\ new.state = old.state

\* C33: a Running frame computes moonVelocity from the distance and Earth
\* mass of that frame, advances moonAngle by moonVelocity/moonDistance
\* (a strict increase), moves the moon there, appends that one position to
\* the trail, and leaves moonDistance and the phase as they were.
C33_RunningFrameStep == [][C33_Step]_vars

C33_Witness ==
    /\ G_physicsRef.state = "running"
    /\ runFrames = 2
    /\ Len(G_physicsRef.pathPoints) = 2
    /\ G_physicsRef.pathPoints[1] # G_physicsRef.pathPoints[2]
    /\ G_physicsRef.moonDistance = INITIAL_DISTANCE * Unit
    /\ G_physicsRef.moonAngle > 0

\* ---------------------------------------------------------------------
\* Pointer input to the orbit.

PointerInput ==
    handleCanvasMouseDown \/ handleCanvasMouseMove \/ handleCanvasMouseUp

C34_Moon(p) == <<p.moonDistance, p.moonAngle, p.moonX, p.moonY>>

C34_Rest(p) == <<p.state, p.moonVelocity, p.forceMagnitude, p.pathPoints>>

C34_Press ==
    \A off \in PressOffsets :
        handleCanvasMouseDownAt(off) =>
            isDraggingRef' = (isDraggingRef \/ off < MOON_RADIUS + 10)

C34_Step ==
    /\ C34_Press
    /\ (~isDraggingRef /\ isDraggingRef') => handleCanvasMouseDown
    /\ (handleCanvasMouseMove /\ ~isDraggingRef) =>
          G_physicsRef' = G_physicsRef /\ ~isDraggingRef'
    /\ handleCanvasMouseUp => ~isDraggingRef'
    /\ PointerInput =>
          /\ C34_Rest(G_physicsRef') = C34_Rest(G_physicsRef)
          /\ G_simState' = G_simState
          /\ C34_Moon(G_physicsRef') # C34_Moon(G_physicsRef) =>
                handleCanvasMouseMove /\ isDraggingRef /\ isDraggingRef'

\* C34: only a press within MOON_RADIUS + 10 of the moon starts a drag; a
\* move with no drag active changes nothing; release and pointer-leave end
\* the drag; pointer input changes moonDistance, moonAngle and the moon's
\* position only while a drag is active, and never the phase, the
\* velocity, the force magnitude or the trail.
C34_DragProtocol == [][C34_Step]_vars

C34_Witness ==
    /\ ~isDraggingRef
    /\ dragTrace.moved
    /\ G_physicsRef.moonDistance = MAX_DISTANCE * Unit
    /\ G_physicsRef.state = "idle"
    /\ G_physicsRef.pathPoints = << >>
    /\ commands >= 3

\* ---------------------------------------------------------------------
\* Phases of the orbit.

C35_Commands ==
    /\ handlePlay =>
          G_physicsRef.state # "running" /\ G_physicsRef'.state = "running"
    /\ handlePause =>
          G_physicsRef.state = "running" /\ G_physicsRef'.state = "paused"
    /\ G_handleReset => G_physicsRef'.state = "idle"

C35_OnlyCommands ==
    G_physicsRef'.state # G_physicsRef.state =>
        \/ handlePlay /\ G_physicsRef'.state = "running"
        \/ handlePause /\ G_physicsRef.state = "running"
                       /\ G_physicsRef'.state = "paused"
        \/ G_handleReset /\ G_physicsRef'.state = "idle"
        \/ handleTabChange

C35_Others ==
    (\/ G_update \/ PointerInput \/ setEarthMass \/ setMoonMass
     \/ setShowForceArrows \/ setShowOrbitalPath) =>
        G_physicsRef'.state = G_physicsRef.state

\* C35: the phase of the mounted orbit changes only by Play (to Running),
\* Pause (from Running to Paused) and Reset (to Idle); frames, pointer
\* events, mass changes and display toggles leave it as it is.
C35_GravityPhaseTransitions ==
    [][C35_Commands /\ C35_OnlyCommands /\ C35_Others]_vars

C35_Witness ==
    /\ G_physicsRef.state = "paused"
    /\ runFrames > 0
    /\ Len(G_physicsRef.pathPoints) = runFrames
    /\ earthMass # "earth"
    /\ ~showForceArrows

\* ---------------------------------------------------------------------
\* The phase shown by the UI.

C36_Hammer ==
    /\ simState = physicsRef.state
    /\ primaryButtonLabel(simState) = primaryButtonLabel(physicsRef.state)
    /\ LegendOverlay(simState) = LegendOverlay(physicsRef.state)

C36_Gravity == G_simState = G_physicsRef.state

\* C36: in both scenarios, after every command and every frame, the phase
\* held by the UI (simState, which enables the buttons and picks the label
\* and the overlay) is the phase stored in the physics record.
C36_UiPhaseMirrorsPhysics == C36_Hammer /\ C36_Gravity

C36_Witness ==
    /\ physicsRef.state = "contact"
    /\ simState = "contact"
    /\ hitTrace.contacts = 1
    /\ hitTrace.from = "pause"
    /\ Len(impactLog) = 2

=============================================================================
